---- MODULE Spec2Model ----
(***************************************************************************)
(* Voice Cloner Pro (src/3.py): the interactive (Tk) thread, the worker    *)
(* threads started by Record / Generate / Play, the status queue, the      *)
(* after(0) callbacks and the settings dictionary with its file.           *)
(*                                                                         *)
(* Handlers of the interactive thread are atomic with respect to each      *)
(* other (one Tk main loop); a worker thread interleaves with them one     *)
(* shared read, write or blocking call at a time.                          *)
(***************************************************************************)
EXTENDS Integers, Sequences, FiniteSets, TLC

\* ------------------------------------------------------------------ bounds
MaxEvents == 2                     \* user intents and external file removals in one run
MaxChannelEvents == 1              \* Record and Generate intents, where the main loop's callbacks interleave
MaxRestarts == 1                   \* processes started after the first one

\* --------------------------------------------------------------- constants
DefaultSeconds == 10               \* DEFAULT_SETTINGS["record_seconds"]
DefaultRate == 44100               \* DEFAULT_SETTINGS["sample_rate"]
DefaultModel == "tts_models/en/vctk/vits"
OtherModel == "tts_models/en/ljspeech/vits"
None == "<None>"                   \* Python's None (voice_sample, _coqui_instance)
RecPath == "myvoice_sample.wav"    \* Path.cwd() / "myvoice_sample.wav"
OutPath == "vc_output.wav"         \* self.output_file
WavFile == "Voice.WAV"             \* a file the user may pick in the dialog
TxtFile == "notes.txt"             \* another one
NoLabel == "No voice sample selected"

SpinValues == {2, DefaultSeconds}            \* values read from record_spin
RateValues == {8000, DefaultRate}            \* values read from sr_combo
Models == {DefaultModel, OtherModel}
EntryValues == Models \cup {""}              \* model_entry.get().strip()
Texts == {"", "Hello world"}                 \* text_box content, stripped
UploadChoices == {"", WavFile, TxtFile}      \* askopenfilename() results
Deletable == {WavFile, RecPath}              \* files another process may remove
Jobs == 1..MaxEvents                         \* every intent may start a thread

\* ----------------------------------------------------------------- helpers
\* str.lower() on the suffix of the paths of the model.
Ext(p) ==
    CASE p = WavFile -> ".WAV"
      [] p = RecPath -> ".wav"
      [] p = OutPath -> ".wav"
      [] p = TxtFile -> ".txt"
      [] OTHER -> ""

Lower(s) == IF s = ".WAV" THEN ".wav" ELSE s

\* path.lower().endswith(".wav")
EndsWithWav(p) == Lower(Ext(p)) = ".wav"

\* ensure_wav_path: the path, or None
ensure_wav_path(p, files) ==
    IF p # "" /\ p # None /\ p \in files /\ EndsWithWav(p) THEN p ELSE None

\* self.voice_sample and os.path.exists(self.voice_sample)
SampleExists(sample, files) == sample # None /\ sample # "" /\ sample \in files

\* _get_sample_label_text
SampleLabel(sample, files) == IF SampleExists(sample, files) THEN sample ELSE NoLabel

\* A status text with the job that emitted it (0: the interactive thread)
\* and its place k in that job's program order.
Msg(j, k, t) == [job |-> j, k |-> k, text |-> t]

SeqSet(s) == {s[i] : i \in 1..Len(s)}

\* The settings file right after open(SETTINGS_FILE, "w"): it exists and is empty.
Truncated == [size |-> 0]

\* save_settings: the file after the call; a failing open() is swallowed
\* (ok: the file can be opened for writing).
save_settings(doc, file, ok) == IF ok THEN <<doc>> ELSE file

\* ------------------------------------------- the settings file, as JSON
\* The keys of DEFAULT_SETTINGS and one key the program does not know.
KnownKeys == {"last_voice_sample", "record_seconds", "sample_rate", "tts_model_name"}
Keys == KnownKeys \cup {"theme"}

\* Python values, and "absent" for a key the dictionary does not hold.
PyInt(n) == [t |-> "int", n |-> n, s |-> ""]
PyStr(s) == [t |-> "str", n |-> 0, s |-> s]
PyNone == [t |-> "NoneType", n |-> 0, s |-> ""]
PyAbsent == [t |-> "absent", n |-> 0, s |-> ""]

\* JSON values, and "absent" for a member the document does not hold.
JNumber(n) == [j |-> "number", n |-> n, s |-> ""]
JString(s) == [j |-> "string", n |-> 0, s |-> s]
JNull == [j |-> "null", n |-> 0, s |-> ""]
JAbsent == [j |-> "absent", n |-> 0, s |-> ""]

\* json.load on one value
from_json(v) ==
    CASE v.j = "number" -> PyInt(v.n)
      [] v.j = "string" -> PyStr(v.s)
      [] v.j = "null" -> PyNone
      [] OTHER -> PyAbsent

\* json.dump on one value
to_json(v) ==
    CASE v.t = "int" -> JNumber(v.n)
      [] v.t = "str" -> JString(v.s)
      [] v.t = "NoneType" -> JNull
      [] OTHER -> JAbsent

\* The literal of lines 56-61.
Defaults ==
    [k \in Keys |->
        CASE k = "last_voice_sample" -> PyStr("")
          [] k = "record_seconds" -> PyInt(DefaultSeconds)
          [] k = "sample_rate" -> PyInt(DefaultRate)
          [] k = "tts_model_name" -> PyStr(DefaultModel)
          [] OTHER -> PyAbsent]

\* What a settings file may hold, by what json.load and dict.update make of it:
\* "object" (a JSON object), "pairs" (an array of [key, value] arrays, which
\* dict.update accepts), "pairs_then_bad" (such an array with a last element
\* that is no pair: update applies the pairs and raises), "scalar" (a number,
\* true or null: update raises), "unparsable" (json.load raises: empty,
\* truncated or no JSON), "unreadable" (open raises).
UpdatingKinds == {"object", "pairs", "pairs_then_bad"}
OtherKinds == {"scalar", "unparsable", "unreadable"}

NoMembers == [k \in Keys |-> JAbsent]

MemberValues(k) ==
    CASE k = "last_voice_sample" -> {JAbsent, JString(WavFile), JNull}
      [] k = "record_seconds" ->
            {JAbsent, JNumber(5), JNumber(1000), JString("12"), JString("abc"), JNull}
      [] k = "sample_rate" -> {JAbsent, JNumber(8000), JNumber(12345)}
      [] k = "tts_model_name" -> {JAbsent, JString(OtherModel)}
      [] OTHER -> {JAbsent, JString("dark")}

Members == {m \in [Keys -> UNION {MemberValues(k) : k \in Keys}] :
               \A k \in Keys : m[k] \in MemberValues(k)}

Documents ==
    [kind : UpdatingKinds, members : Members] \cup [kind : OtherKinds, members : {NoMembers}]

\* DEFAULT_SETTINGS.update(s)
update(d, m) == [k \in Keys |-> IF m[k].j # "absent" THEN from_json(m[k]) ELSE d[k]]

\* Only the keys the program knows are written.
json_dump_KnownKeysOnly(d) ==
    [kind |-> "object",
     members |-> [k \in Keys |-> IF k \in KnownKeys THEN to_json(d[k]) ELSE JAbsent]]

\* json.dump(DEFAULT_SETTINGS, f, indent=2): every key of the dictionary
json_dump(d) == [kind |-> "object", members |-> [k \in Keys |-> to_json(d[k])]]

\* load_settings: the dictionary after the call; every exception is swallowed,
\* what update did before it raised stays.
load_settings(d, file) ==
    IF file = <<>> THEN d
    ELSE IF file[1].kind \in UpdatingKinds THEN update(d, file[1].members)
    ELSE d

\* int(x) of lines 113-114, or that it raises (ValueError, TypeError)
IntOf(v) ==
    CASE v.t = "int" -> [ok |-> TRUE, n |-> v.n]
      [] v = PyStr("12") -> [ok |-> TRUE, n |-> 12]
      [] OTHER -> [ok |-> FALSE, n |-> 0]

\* x or None
OrNone(v) == IF v.t = "absent" \/ v = PyStr("") \/ v = PyInt(0) THEN PyNone ELSE v

NotConstructed ==
    [ok |-> FALSE, voice_sample |-> PyNone, record_seconds |-> 0, sample_rate |-> 0,
     tts_model_name |-> PyNone]

\* VoiceClonerApp.__init__, lines 112-115: the session read from the dictionary
Construct(d) ==
    LET seconds == IntOf(d["record_seconds"])
        rate == IntOf(d["sample_rate"])
    IN  IF seconds.ok /\ rate.ok
        THEN [ok |-> TRUE, voice_sample |-> OrNone(d["last_voice_sample"]),
              record_seconds |-> seconds.n, sample_rate |-> rate.n,
              tts_model_name |-> d["tts_model_name"]]
        ELSE NotConstructed

\* -------------------------------------------------------------------- state
VARIABLES
    HAS_TTS,            \* Coqui TTS importable
    HAS_PYTTSX3,        \* pyttsx3 importable
    disk_ok,            \* the settings file can be opened for writing
    boot,               \* the start of the process: import, load_settings, __init__
    fs,                 \* the files that exist
    DEFAULT_SETTINGS,   \* the global settings dictionary
    settings_file,      \* <<>> (no file) or <<document>>
    voice_sample, record_seconds, sample_rate, tts_model_name,
    coqui_instance,     \* None, or the model name the handle was built for
    btn_generate,       \* "normal" | "disabled"
    status_var,         \* the status label: the message on display
    sample_label,       \* sample_label_var
    dialog,             \* the dialog the last handler of the interactive thread showed
    status_q,           \* queue.Queue of posted messages
    after_q,            \* pending after(0, _u) callbacks
    poll_pending,       \* after(200, _process_status_queue) is scheduled
    alive,              \* the Tk application has not been destroyed
    workers,            \* the threads, by start order
    nJobs,              \* threads started
    nEvents,            \* intents and file removals so far
    posted,             \* history: messages put on status_q
    delivered,          \* history: messages forwarded to the label by the poll
    deliveredN          \* history: how many forwards happened

vars == <<HAS_TTS, HAS_PYTTSX3, disk_ok, boot, nEvents, fs, DEFAULT_SETTINGS, settings_file, voice_sample,
          record_seconds, sample_rate, tts_model_name, coqui_instance, btn_generate,
          status_var, sample_label, dialog, status_q, after_q, poll_pending, alive,
          workers, nJobs, posted, delivered, deliveredN>>

caps == <<HAS_TTS, HAS_PYTTSX3, disk_ok, boot>>
prefs == <<DEFAULT_SETTINGS, settings_file>>
session == <<voice_sample, record_seconds, sample_rate, tts_model_name>>
view == <<status_var, sample_label, dialog>>
channel == <<status_q, posted, delivered, deliveredN>>
loop == <<after_q, poll_pending, alive>>
threads == <<workers, nJobs>>

\* What the Controller holds when a job is submitted.
Snapshot ==
    [seconds |-> record_seconds, rate |-> sample_rate,
     model |-> tts_model_name, sample |-> voice_sample]

NoSnapshot == [seconds |-> 0, rate |-> 0, model |-> "", sample |-> None]

\* A thread slot. duration, samplerate, loadModel, cloneSample, cloneHandle are the
\* values the worker read (0, "": not read yet); cloneUsable tells whether the
\* sample it handed to the cloning engine was an existing .wav file then; term
\* counts the completion and failure messages it posted; wrote tells what a
\* Record worker has updated ("sample": self.voice_sample, "pref": the
\* last_voice_sample setting as well); outcome is how it ended.
Idle ==
    [kind |-> "none", pc |-> "idle", text |-> "", sub |-> NoSnapshot,
     duration |-> 0, samplerate |-> 0, loadModel |-> "", cloneSample |-> "",
     cloneHandle |-> "", cloneUsable |-> TRUE, engine |-> "", term |-> 0,
     wrote |-> "", outcome |-> "none"]

Start(kind, pc, text) == [Idle EXCEPT !.kind = kind, !.pc = pc, !.text = text, !.sub = Snapshot]

Running(j) == workers[j].kind # "none" /\ workers[j].pc # "done"

SetW(j, w) == workers' = [workers EXCEPT ![j] = w]

Goto(j, pc) == SetW(j, [workers[j] EXCEPT !.pc = pc])

\* The thread function returned (or raised): its locals are gone.
Finish(j, outcome) ==
    SetW(j, [workers[j] EXCEPT !.pc = "done", !.outcome = outcome,
                               !.duration = 0, !.samplerate = 0])

\* The start of a process: where it is (pc: "import" before load_settings,
\* "loaded", then "mainloop" or, __init__ having raised, "crashed"), the
\* settings file and dictionary as JSON and Python values, the session __init__
\* made of it, and history: the dictionary of the last save that succeeded, and
\* the processes started since.
Booting(file) ==
    [pc |-> "import", file |-> file, settings |-> Defaults, app |-> NotConstructed,
     wasSaved |-> FALSE, saved |-> Defaults, restarts |-> 0]

\* The window is up and the main loop runs: the start is over.
Booted == [Booting(<<>>) EXCEPT !.pc = "mainloop"]

\* -------------------------------------------------------------------- Init
Init ==
    /\ HAS_TTS \in BOOLEAN
    /\ HAS_PYTTSX3 \in BOOLEAN
    /\ disk_ok \in BOOLEAN
    /\ boot = Booted
    /\ nEvents = 0
    /\ fs = {TxtFile, WavFile}
    /\ \E last \in {"", WavFile} :
          /\ DEFAULT_SETTINGS =
                [last_voice_sample |-> last, record_seconds |-> DefaultSeconds,
                 sample_rate |-> DefaultRate, tts_model_name |-> DefaultModel]
          /\ settings_file = IF last = "" THEN <<>> ELSE <<DEFAULT_SETTINGS>>
          /\ voice_sample = IF last = "" THEN None ELSE last
    /\ record_seconds = DEFAULT_SETTINGS.record_seconds
    /\ sample_rate = DEFAULT_SETTINGS.sample_rate
    /\ tts_model_name = DEFAULT_SETTINGS.tts_model_name
    /\ coqui_instance = None
    /\ btn_generate = "normal"
    /\ status_var = Msg(0, 0, "Ready")
    /\ sample_label = SampleLabel(voice_sample, fs)
    /\ dialog = "none"
    /\ status_q = <<>>
    /\ after_q = <<>>
    /\ poll_pending = TRUE
    /\ alive = TRUE
    /\ workers = [j \in Jobs |-> Idle]
    /\ nJobs = 0
    /\ posted = {}
    /\ delivered = {}
    /\ deliveredN = 0

\* ------------------------------------------------ status channel primitives
\* post_status(msg): status_q.put(msg)
post_status(m) ==
    /\ status_q' = Append(status_q, m)
    /\ posted' = posted \cup {m}
    /\ UNCHANGED <<delivered, deliveredN>>

\* self.after(0, _u): schedules the label update on the interactive thread.
after0(m) == after_q' = Append(after_q, m)

\* ------------------------------------------- handlers, interactive thread
\* _on_record_seconds_changed: int(record_spin.get()) may raise, which is swallowed.
OnRecordSecondsChanged(v, parses) ==
    /\ alive
    /\ nEvents < MaxEvents
    /\ nEvents' = nEvents + 1
    /\ IF parses
       THEN /\ record_seconds' = v
            /\ DEFAULT_SETTINGS' = [DEFAULT_SETTINGS EXCEPT !.record_seconds = v]
            /\ settings_file' = save_settings(DEFAULT_SETTINGS', settings_file, disk_ok)
       ELSE UNCHANGED <<record_seconds, DEFAULT_SETTINGS, settings_file>>
    /\ dialog' = "none"
    /\ UNCHANGED <<caps, fs, voice_sample, sample_rate, tts_model_name, coqui_instance,
                   btn_generate, status_var, sample_label, channel, loop, threads>>

\* _on_sample_rate_changed
OnSampleRateChanged(v, parses) ==
    /\ alive
    /\ nEvents < MaxEvents
    /\ nEvents' = nEvents + 1
    /\ IF parses
       THEN /\ sample_rate' = v
            /\ DEFAULT_SETTINGS' = [DEFAULT_SETTINGS EXCEPT !.sample_rate = v]
            /\ settings_file' = save_settings(DEFAULT_SETTINGS', settings_file, disk_ok)
       ELSE UNCHANGED <<sample_rate, DEFAULT_SETTINGS, settings_file>>
    /\ dialog' = "none"
    /\ UNCHANGED <<caps, fs, voice_sample, record_seconds, tts_model_name, coqui_instance,
                   btn_generate, status_var, sample_label, channel, loop, threads>>

\* _on_record: starts a thread on _record_worker; nothing is checked first.
OnRecord ==
    /\ alive
    /\ nEvents < MaxEvents
    /\ nEvents' = nEvents + 1
    /\ nJobs' = nJobs + 1
    /\ SetW(nJobs + 1, Start("record", "r_post_recording", ""))
    /\ dialog' = "none"
    /\ UNCHANGED <<caps, fs, prefs, session, coqui_instance, btn_generate, status_var,
                   sample_label, channel, loop>>

\* _on_upload: file_path is what the file dialog returned ("" when cancelled).
\* Only the suffix is looked at; the path is not checked to exist.
OnUpload(file_path) ==
    /\ alive
    /\ nEvents < MaxEvents
    /\ nEvents' = nEvents + 1
    /\ IF file_path = ""
       THEN /\ dialog' = "none"
            /\ UNCHANGED <<voice_sample, sample_label, prefs, after_q>>
       ELSE IF ~EndsWithWav(file_path)
       THEN /\ dialog' = "InvalidFile"
            /\ UNCHANGED <<voice_sample, sample_label, prefs, after_q>>
       ELSE /\ voice_sample' = file_path
            /\ sample_label' = SampleLabel(voice_sample', fs)
            /\ DEFAULT_SETTINGS' = [DEFAULT_SETTINGS EXCEPT !.last_voice_sample = voice_sample']
            /\ settings_file' = save_settings(DEFAULT_SETTINGS', settings_file, disk_ok)
            /\ after0(Msg(0, 0, "Uploaded voice sample"))
            /\ dialog' = "none"
    /\ UNCHANGED <<caps, fs, record_seconds, sample_rate, tts_model_name, coqui_instance,
                   btn_generate, status_var, channel, poll_pending, alive, threads>>

\* The confirmation of line 281 left out: with Coqui installed the handler goes on.
GenerateDecision_NoConfirm(text, sample, files, hasTTS, hasPyttsx3, answer) ==
    IF text = "" THEN "NoText"
    ELSE IF ~SampleExists(sample, files)
    THEN IF ~hasTTS
         THEN IF ~hasPyttsx3 THEN "NoEngine"
              ELSE IF answer THEN "AskedAccepted" ELSE "AskedDeclined"
         ELSE "none"
    ELSE "none"

\* _on_generate, lines 267-282: the dialog the validation ends with.
\* "none" and "AskedAccepted" let the handler go on; the others return.
GenerateDecision(text, sample, files, hasTTS, hasPyttsx3, answer) ==
    IF text = "" THEN "NoText"
    ELSE IF ~SampleExists(sample, files)
    THEN IF ~hasTTS
         THEN IF ~hasPyttsx3 THEN "NoEngine"
              ELSE IF answer THEN "AskedAccepted" ELSE "AskedDeclined"
         ELSE IF answer THEN "AskedAccepted" ELSE "AskedDeclined"
    ELSE "none"

\* The model name taken from the entry and saved before the validation.
OnGenerate_SaveFirst(text, entry, answer) ==
    /\ alive
    /\ nEvents < MaxEvents
    /\ nEvents' = nEvents + 1
    /\ btn_generate = "normal"
    /\ dialog' = GenerateDecision(text, voice_sample, fs, HAS_TTS, HAS_PYTTSX3, answer)
    /\ tts_model_name' = IF entry # "" THEN entry ELSE tts_model_name
    /\ DEFAULT_SETTINGS' = [DEFAULT_SETTINGS EXCEPT !.tts_model_name = tts_model_name']
    /\ settings_file' = save_settings(DEFAULT_SETTINGS', settings_file, disk_ok)
    /\ IF dialog' \in {"none", "AskedAccepted"}
       THEN /\ btn_generate' = "disabled"
            /\ nJobs' = nJobs + 1
            /\ workers' = [workers EXCEPT ![nJobs + 1] =
                             [Start("generate", "g_set_preparing", text)
                                EXCEPT !.sub = [Snapshot EXCEPT !.model = tts_model_name']]]
       ELSE UNCHANGED <<btn_generate, threads>>
    /\ UNCHANGED <<caps, fs, voice_sample, record_seconds, sample_rate, coqui_instance,
                   status_var, sample_label, channel, loop>>

\* _on_generate. The handler is the command of btn_generate, which Tk does not
\* invoke while the button is disabled.
OnGenerate(text, entry, answer) ==
    /\ alive
    /\ nEvents < MaxEvents
    /\ nEvents' = nEvents + 1
    /\ btn_generate = "normal"
    /\ dialog' = GenerateDecision(text, voice_sample, fs, HAS_TTS, HAS_PYTTSX3, answer)
    /\ IF dialog' \in {"none", "AskedAccepted"}
       THEN /\ tts_model_name' = IF entry # "" THEN entry ELSE tts_model_name
            /\ DEFAULT_SETTINGS' = [DEFAULT_SETTINGS EXCEPT !.tts_model_name = tts_model_name']
            /\ settings_file' = save_settings(DEFAULT_SETTINGS', settings_file, disk_ok)
            /\ btn_generate' = "disabled"
            /\ nJobs' = nJobs + 1
            /\ workers' = [workers EXCEPT ![nJobs + 1] =
                             [Start("generate", "g_set_preparing", text)
                                EXCEPT !.sub = [Snapshot EXCEPT !.model = tts_model_name']]]
       ELSE UNCHANGED <<tts_model_name, prefs, btn_generate, threads>>
    /\ UNCHANGED <<caps, fs, voice_sample, record_seconds, sample_rate, coqui_instance,
                   status_var, sample_label, channel, loop>>

\* _on_play_output
OnPlayOutput ==
    /\ alive
    /\ nEvents < MaxEvents
    /\ nEvents' = nEvents + 1
    /\ IF OutPath \in fs
       THEN /\ nJobs' = nJobs + 1
            /\ SetW(nJobs + 1, Start("play", "p_play", ""))
            /\ after0(Msg(0, 0, "Playing last output"))
            /\ dialog' = "none"
       ELSE /\ dialog' = "NoOutput"
            /\ UNCHANGED <<threads, after_q>>
    /\ UNCHANGED <<caps, fs, prefs, session, coqui_instance, btn_generate, status_var,
                   sample_label, channel, poll_pending, alive>>

\* The _u callback of _set_status, run by the main loop: callbacks scheduled
\* with after(0) run in the order they were scheduled.
RunAfterCallback ==
    /\ alive
    /\ after_q # <<>>
    /\ status_var' = Head(after_q)
    /\ after_q' = Tail(after_q)
    /\ UNCHANGED <<caps, nEvents, fs, prefs, session, coqui_instance, btn_generate,
                   sample_label, dialog, channel, poll_pending, alive, threads>>

\* The poll rescheduled inside the loop only: an empty queue ends the polling.
ProcessStatusQueue_NoReschedule ==
    /\ alive
    /\ poll_pending
    /\ status_var' = IF status_q = <<>> THEN status_var ELSE status_q[Len(status_q)]
    /\ delivered' = delivered \cup SeqSet(status_q)
    /\ deliveredN' = deliveredN + Len(status_q)
    /\ status_q' = <<>>
    /\ poll_pending' = (status_q # <<>>)
    /\ UNCHANGED <<caps, nEvents, fs, prefs, session, coqui_instance, btn_generate,
                   sample_label, dialog, posted, after_q, alive, threads>>

\* _process_status_queue: drains the queue into the label and reschedules itself.
ProcessStatusQueue ==
    /\ alive
    /\ poll_pending
    /\ status_var' = IF status_q = <<>> THEN status_var ELSE status_q[Len(status_q)]
    /\ delivered' = delivered \cup SeqSet(status_q)
    /\ deliveredN' = deliveredN + Len(status_q)
    /\ status_q' = <<>>
    /\ poll_pending' = TRUE
    /\ UNCHANGED <<caps, nEvents, fs, prefs, session, coqui_instance, btn_generate,
                   sample_label, dialog, posted, after_q, alive, threads>>

\* on_exit: writes the session back to the settings, saves, destroys the window.
\* The callbacks still scheduled never run.
OnExit ==
    /\ alive
    /\ nEvents < MaxEvents
    /\ nEvents' = nEvents + 1
    /\ DEFAULT_SETTINGS' =
          [last_voice_sample |-> IF voice_sample = None THEN "" ELSE voice_sample,
           record_seconds |-> record_seconds,
           sample_rate |-> sample_rate,
           tts_model_name |-> tts_model_name]
    /\ settings_file' = save_settings(DEFAULT_SETTINGS', settings_file, disk_ok)
    /\ alive' = FALSE
    /\ after_q' = <<>>
    /\ poll_pending' = FALSE
    /\ dialog' = "none"
    /\ UNCHANGED <<caps, fs, session, coqui_instance, btn_generate, status_var,
                   sample_label, channel, threads>>

\* Another process removes a file.
ExternalDelete(f) ==
    /\ f \in fs
    /\ nEvents < MaxEvents
    /\ nEvents' = nEvents + 1
    /\ fs' = fs \ {f}
    /\ UNCHANGED <<caps, prefs, session, coqui_instance, btn_generate, view, channel,
                   loop, threads>>

\* ------------------------------------------------------- _record_worker
\* What a worker step leaves alone besides the variables it names.
RecFrame == UNCHANGED <<caps, nEvents, coqui_instance, btn_generate, status_var, dialog,
                        poll_pending, alive, nJobs, record_seconds, sample_rate,
                        tts_model_name>>

IsAt(j, kind, pc) == workers[j].kind = kind /\ workers[j].pc = pc

\* line 233: post_status("Recording...")
RecPostRecording(j) ==
    /\ IsAt(j, "record", "r_post_recording")
    /\ post_status(Msg(j, 1, "Recording..."))
    /\ Goto(j, "r_set_recording")
    /\ RecFrame
    /\ UNCHANGED <<fs, prefs, voice_sample, sample_label, after_q>>

\* line 234: self._set_status("Recording..."); self.after raises once the
\* application is destroyed, and the worker's except clause takes over.
RecSetRecording(j) ==
    /\ IsAt(j, "record", "r_set_recording")
    /\ IF alive
       THEN after0(Msg(j, 1, "Recording...")) /\ Goto(j, "r_read_seconds")
       ELSE UNCHANGED after_q /\ Goto(j, "r_fail_post")
    /\ RecFrame
    /\ UNCHANGED <<fs, prefs, voice_sample, sample_label, channel>>

\* line 235: duration = self.record_seconds
RecReadSeconds(j) ==
    /\ IsAt(j, "record", "r_read_seconds")
    /\ SetW(j, [workers[j] EXCEPT !.duration = record_seconds, !.pc = "r_read_rate"])
    /\ RecFrame
    /\ UNCHANGED <<fs, prefs, voice_sample, sample_label, channel, after_q>>

\* line 236: samplerate = self.sample_rate
RecReadRate(j) ==
    /\ IsAt(j, "record", "r_read_rate")
    /\ SetW(j, [workers[j] EXCEPT !.samplerate = sample_rate, !.pc = "r_capture"])
    /\ RecFrame
    /\ UNCHANGED <<fs, prefs, voice_sample, sample_label, channel, after_q>>

\* lines 238-239: sd.rec(...); sd.wait(): the device may fail.
RecCapture(j, ok) ==
    /\ IsAt(j, "record", "r_capture")
    /\ Goto(j, IF ok THEN "r_write" ELSE "r_fail_post")
    /\ RecFrame
    /\ UNCHANGED <<fs, prefs, voice_sample, sample_label, channel, after_q>>

\* lines 240-241: write(outpath, samplerate, rec): the file system may fail.
RecWrite(j, ok) ==
    /\ IsAt(j, "record", "r_write")
    /\ IF ok
       THEN fs' = fs \cup {RecPath} /\ Goto(j, "r_set_sample")
       ELSE UNCHANGED fs /\ Goto(j, "r_fail_post")
    /\ RecFrame
    /\ UNCHANGED <<prefs, voice_sample, sample_label, channel, after_q>>

\* line 242: self.voice_sample = outpath
RecSetSample(j) ==
    /\ IsAt(j, "record", "r_set_sample")
    /\ voice_sample' = RecPath
    /\ SetW(j, [workers[j] EXCEPT !.wrote = "sample", !.pc = "r_set_label"])
    /\ RecFrame
    /\ UNCHANGED <<fs, prefs, sample_label, channel, after_q>>

\* line 243: self.sample_label_var.set(self._get_sample_label_text()), on the
\* worker thread.
RecSetLabel(j) ==
    /\ IsAt(j, "record", "r_set_label")
    /\ IF alive
       THEN sample_label' = SampleLabel(voice_sample, fs) /\ Goto(j, "r_set_pref")
       ELSE UNCHANGED sample_label /\ Goto(j, "r_fail_post")
    /\ RecFrame
    /\ UNCHANGED <<fs, prefs, voice_sample, channel, after_q>>

\* line 244: DEFAULT_SETTINGS["last_voice_sample"] = self.voice_sample
RecSetPref(j) ==
    /\ IsAt(j, "record", "r_set_pref")
    /\ DEFAULT_SETTINGS' = [DEFAULT_SETTINGS EXCEPT !.last_voice_sample = voice_sample]
    /\ SetW(j, [workers[j] EXCEPT !.wrote = "pref", !.pc = "r_save"])
    /\ RecFrame
    /\ UNCHANGED <<fs, settings_file, voice_sample, sample_label, channel, after_q>>

\* line 245, save_settings() on the worker thread; line 74: open(SETTINGS_FILE,
\* "w") empties the file, or raises, which save_settings swallows.
RecSaveOpen(j) ==
    /\ IsAt(j, "record", "r_save")
    /\ IF disk_ok
       THEN settings_file' = <<Truncated>> /\ Goto(j, "r_save_dump")
       ELSE UNCHANGED settings_file /\ Goto(j, "r_post_saved")
    /\ RecFrame
    /\ UNCHANGED <<fs, DEFAULT_SETTINGS, voice_sample, sample_label, channel, after_q>>

\* line 75: json.dump(DEFAULT_SETTINGS, f, indent=2) and the close of the file.
\* The dictionary is read now; a save of the interactive thread since the
\* open wrote the same dictionary (every handler that changes it saves it), and
\* the file ends up holding this document.
RecSaveDump(j) ==
    /\ IsAt(j, "record", "r_save_dump")
    /\ settings_file' = <<DEFAULT_SETTINGS>>
    /\ Goto(j, "r_post_saved")
    /\ RecFrame
    /\ UNCHANGED <<fs, DEFAULT_SETTINGS, voice_sample, sample_label, channel, after_q>>

\* line 246: post_status(f"Saved voice sample: {outpath}")
RecPostSaved(j) ==
    /\ IsAt(j, "record", "r_post_saved")
    /\ post_status(Msg(j, 2, "Saved voice sample"))
    /\ SetW(j, [workers[j] EXCEPT !.term = @ + 1, !.pc = "r_set_complete"])
    /\ RecFrame
    /\ UNCHANGED <<fs, prefs, voice_sample, sample_label, after_q>>

\* line 247: self._set_status("Recording complete."), then the function returns.
RecSetComplete(j) ==
    /\ IsAt(j, "record", "r_set_complete")
    /\ IF alive
       THEN after0(Msg(j, 3, "Recording complete.")) /\ Finish(j, "completed")
       ELSE UNCHANGED after_q /\ Goto(j, "r_fail_post")
    /\ RecFrame
    /\ UNCHANGED <<fs, prefs, voice_sample, sample_label, channel>>

\* line 249: post_status(f"Recording failed: {e}")
RecFailPost(j) ==
    /\ IsAt(j, "record", "r_fail_post")
    /\ post_status(Msg(j, 4, "Recording failed: e"))
    /\ SetW(j, [workers[j] EXCEPT !.term = @ + 1, !.pc = "r_fail_set"])
    /\ RecFrame
    /\ UNCHANGED <<fs, prefs, voice_sample, sample_label, after_q>>

\* line 250: self._set_status("Recording failed."); raising here, inside the
\* except clause, ends the thread with the exception.
RecFailSet(j) ==
    /\ IsAt(j, "record", "r_fail_set")
    /\ IF alive
       THEN after0(Msg(j, 5, "Recording failed.")) /\ Goto(j, "r_fail_dialog")
       ELSE UNCHANGED after_q /\ Finish(j, "escaped")
    /\ RecFrame
    /\ UNCHANGED <<fs, prefs, voice_sample, sample_label, channel>>

\* line 251: messagebox.showerror(...), on the worker thread; Tk may refuse the
\* dialog (TclError), and does once the application is destroyed.
RecFailDialog(j, ok) ==
    /\ IsAt(j, "record", "r_fail_dialog")
    /\ Finish(j, IF alive /\ ok THEN "failed" ELSE "escaped")
    /\ RecFrame
    /\ UNCHANGED <<fs, prefs, voice_sample, sample_label, channel, after_q>>

RecordWorker(j) ==
    \/ RecPostRecording(j)
    \/ RecSetRecording(j)
    \/ RecReadSeconds(j)
    \/ RecReadRate(j)
    \/ \E ok \in BOOLEAN : RecCapture(j, ok)
    \/ \E ok \in BOOLEAN : RecWrite(j, ok)
    \/ RecSetSample(j)
    \/ RecSetLabel(j)
    \/ RecSetPref(j)
    \/ RecSaveOpen(j)
    \/ RecSaveDump(j)
    \/ RecPostSaved(j)
    \/ RecSetComplete(j)
    \/ RecFailPost(j)
    \/ RecFailSet(j)
    \/ \E ok \in BOOLEAN : RecFailDialog(j, ok)

\* ----------------------------------------------------- _generate_worker
GenFrame == UNCHANGED <<caps, nEvents, prefs, session, sample_label, status_var, dialog,
                        poll_pending, alive, nJobs>>

\* A self._set_status(text) of the worker at pc: on to `next`, or, the
\* application destroyed, to the except clause.
GenSetStatus(j, pc, k, text, next) ==
    /\ IsAt(j, "generate", pc)
    /\ IF alive
       THEN after0(Msg(j, k, text)) /\ Goto(j, next)
       ELSE UNCHANGED after_q /\ Goto(j, "g_fail_post")
    /\ GenFrame
    /\ UNCHANGED <<fs, coqui_instance, btn_generate, channel>>

\* line 295
GenSetPreparing(j) ==
    GenSetStatus(j, "g_set_preparing", 1, "Preparing synthesis...", "g_check_engine")

\* lines 296-298 and 316-319: which engine; a missing pyttsx3 raises RuntimeError.
GenCheckEngine(j) ==
    /\ IsAt(j, "generate", "g_check_engine")
    /\ Goto(j, IF HAS_TTS
               THEN IF coqui_instance = None THEN "g_set_loading" ELSE "g_set_generating"
               ELSE IF ~HAS_PYTTSX3 THEN "g_fail_post" ELSE "g_set_local")
    /\ GenFrame
    /\ UNCHANGED <<fs, coqui_instance, btn_generate, channel, after_q>>

\* line 299
GenSetLoading(j) ==
    GenSetStatus(j, "g_set_loading", 2, "Loading Coqui model", "g_load_model")

\* line 301: self._coqui_instance = TTS(model_name=self.tts_model_name, ...);
\* the constructor may raise.
GenLoadModel(j, ok) ==
    /\ IsAt(j, "generate", "g_load_model")
    /\ IF ok
       THEN /\ coqui_instance' = tts_model_name
            /\ SetW(j, [workers[j] EXCEPT !.loadModel = tts_model_name,
                                          !.pc = "g_set_generating"])
       ELSE /\ UNCHANGED coqui_instance
            /\ SetW(j, [workers[j] EXCEPT !.loadModel = tts_model_name,
                                          !.pc = "g_post_load_failed"])
    /\ GenFrame
    /\ UNCHANGED <<fs, btn_generate, channel, after_q>>

\* line 303: post_status(f"Failed to load Coqui model: {e}")
GenPostLoadFailed(j) ==
    /\ IsAt(j, "generate", "g_post_load_failed")
    /\ post_status(Msg(j, 3, "Failed to load Coqui model: e"))
    /\ SetW(j, [workers[j] EXCEPT !.term = @ + 1, !.pc = "g_reset_handle"])
    /\ GenFrame
    /\ UNCHANGED <<fs, coqui_instance, btn_generate, after_q>>

\* lines 305-306: self._coqui_instance = None; raise e
GenResetHandle(j) ==
    /\ IsAt(j, "generate", "g_reset_handle")
    /\ coqui_instance' = None
    /\ Goto(j, "g_fail_post")
    /\ GenFrame
    /\ UNCHANGED <<fs, btn_generate, channel, after_q>>

\* line 309
GenSetGenerating(j) ==
    GenSetStatus(j, "g_set_generating", 4, "Generating audio with Coqui TTS...",
                 "g_coqui_synthesize")

\* The handle thrown away when the synthesis raises.
GenCoquiSynthesize_ResetOnFailure(j, ok) ==
    /\ IsAt(j, "generate", "g_coqui_synthesize")
    /\ SetW(j, [workers[j] EXCEPT
                  !.cloneSample = voice_sample,
                  !.cloneHandle = coqui_instance,
                  !.cloneUsable = (ensure_wav_path(voice_sample, fs) # None),
                  !.engine = "coqui",
                  !.pc = IF ok THEN "g_post_generated" ELSE "g_fail_post"])
    /\ fs' = IF ok THEN fs \cup {OutPath} ELSE fs
    /\ coqui_instance' = IF ok THEN coqui_instance ELSE None
    /\ GenFrame
    /\ UNCHANGED <<btn_generate, channel, after_q>>

\* lines 310-311: self._coqui_instance.tts_to_file(text=text,
\* speaker_wav=self.voice_sample, file_path=out); the engine may raise.
GenCoquiSynthesize(j, ok) ==
    /\ IsAt(j, "generate", "g_coqui_synthesize")
    /\ SetW(j, [workers[j] EXCEPT
                  !.cloneSample = voice_sample,
                  !.cloneHandle = coqui_instance,
                  !.cloneUsable = (ensure_wav_path(voice_sample, fs) # None),
                  !.engine = "coqui",
                  !.pc = IF ok THEN "g_post_generated" ELSE "g_fail_post"])
    /\ fs' = IF ok THEN fs \cup {OutPath} ELSE fs
    /\ GenFrame
    /\ UNCHANGED <<coqui_instance, btn_generate, channel, after_q>>

\* line 320
GenSetLocal(j) ==
    GenSetStatus(j, "g_set_local", 4, "Generating with local system TTS (pyttsx3)...",
                 "g_local_synthesize")

\* lines 321-323: pyttsx3.init(); save_to_file(text, self.output_file); runAndWait()
GenLocalSynthesize(j, ok) ==
    /\ IsAt(j, "generate", "g_local_synthesize")
    /\ SetW(j, [workers[j] EXCEPT !.engine = "pyttsx3",
                  !.pc = IF ok THEN "g_post_generated" ELSE "g_fail_post"])
    /\ fs' = IF ok THEN fs \cup {OutPath} ELSE fs
    /\ GenFrame
    /\ UNCHANGED <<coqui_instance, btn_generate, channel, after_q>>

\* lines 312 and 324: post_status(f"Generated (...) -> {out}")
GenPostGenerated(j) ==
    /\ IsAt(j, "generate", "g_post_generated")
    /\ post_status(Msg(j, 5, "Generated -> out"))
    /\ SetW(j, [workers[j] EXCEPT !.term = @ + 1, !.pc = "g_set_complete"])
    /\ GenFrame
    /\ UNCHANGED <<fs, coqui_instance, btn_generate, after_q>>

\* lines 313 and 325
GenSetComplete(j) ==
    GenSetStatus(j, "g_set_complete", 6, "Synthesis complete. Playing output...", "g_play")

\* lines 314 and 326: safe_play(out): playsound may raise, safe_play then shows
\* an error dialog on the worker thread, and an exception of that dialog is the
\* only one that leaves safe_play.
GenPlay(j, played, ok) ==
    /\ IsAt(j, "generate", "g_play")
    /\ Goto(j, IF played \/ (alive /\ ok) THEN "g_set_ready" ELSE "g_fail_post")
    /\ GenFrame
    /\ UNCHANGED <<fs, coqui_instance, btn_generate, channel, after_q>>

\* lines 315 and 327: self._set_status("Ready"); the try block is left.
GenSetReady(j) ==
    /\ IsAt(j, "generate", "g_set_ready")
    /\ IF alive
       THEN /\ after0(Msg(j, 7, "Ready"))
            /\ SetW(j, [workers[j] EXCEPT !.pc = "g_finally", !.outcome = "completed"])
       ELSE UNCHANGED after_q /\ Goto(j, "g_fail_post")
    /\ GenFrame
    /\ UNCHANGED <<fs, coqui_instance, btn_generate, channel>>

\* line 329: post_status(f"Synthesis failed: {e}")
GenFailPost(j) ==
    /\ IsAt(j, "generate", "g_fail_post")
    /\ post_status(Msg(j, 8, "Synthesis failed: e"))
    /\ SetW(j, [workers[j] EXCEPT !.term = @ + 1, !.pc = "g_fail_set"])
    /\ GenFrame
    /\ UNCHANGED <<fs, coqui_instance, btn_generate, after_q>>

\* line 330: self._set_status("Synthesis failed."); raising here leaves the
\* except clause with the exception, through the finally clause.
GenFailSet(j) ==
    /\ IsAt(j, "generate", "g_fail_set")
    /\ IF alive
       THEN after0(Msg(j, 9, "Synthesis failed.")) /\ Goto(j, "g_fail_dialog")
       ELSE /\ UNCHANGED after_q
            /\ SetW(j, [workers[j] EXCEPT !.pc = "g_finally", !.outcome = "escaped"])
    /\ GenFrame
    /\ UNCHANGED <<fs, coqui_instance, btn_generate, channel>>

\* line 331: messagebox.showerror(...), on the worker thread
GenFailDialog(j, ok) ==
    /\ IsAt(j, "generate", "g_fail_dialog")
    /\ SetW(j, [workers[j] EXCEPT !.pc = "g_finally",
                  !.outcome = IF alive /\ ok THEN "failed" ELSE "escaped"])
    /\ GenFrame
    /\ UNCHANGED <<fs, coqui_instance, btn_generate, channel, after_q>>

\* The release at the end of the try block instead of in a finally clause.
GenFinally_OnSuccessOnly(j) ==
    /\ IsAt(j, "generate", "g_finally")
    /\ btn_generate' = IF alive /\ workers[j].outcome = "completed"
                       THEN "normal" ELSE btn_generate
    /\ Finish(j, IF alive THEN workers[j].outcome ELSE "escaped")
    /\ GenFrame
    /\ UNCHANGED <<fs, coqui_instance, channel, after_q>>

\* lines 332-334: finally: self.btn_generate.config(state="normal"); the
\* widget is gone once the application is destroyed, and the call raises.
GenFinally(j) ==
    /\ IsAt(j, "generate", "g_finally")
    /\ btn_generate' = IF alive THEN "normal" ELSE btn_generate
    /\ Finish(j, IF alive THEN workers[j].outcome ELSE "escaped")
    /\ GenFrame
    /\ UNCHANGED <<fs, coqui_instance, channel, after_q>>

GenerateWorker(j) ==
    \/ GenSetPreparing(j)
    \/ GenCheckEngine(j)
    \/ GenSetLoading(j)
    \/ \E ok \in BOOLEAN : GenLoadModel(j, ok)
    \/ GenPostLoadFailed(j)
    \/ GenResetHandle(j)
    \/ GenSetGenerating(j)
    \/ \E ok \in BOOLEAN : GenCoquiSynthesize(j, ok)
    \/ GenSetLocal(j)
    \/ \E ok \in BOOLEAN : GenLocalSynthesize(j, ok)
    \/ GenPostGenerated(j)
    \/ GenSetComplete(j)
    \/ \E played, ok \in BOOLEAN : GenPlay(j, played, ok)
    \/ GenSetReady(j)
    \/ GenFailPost(j)
    \/ GenFailSet(j)
    \/ \E ok \in BOOLEAN : GenFailDialog(j, ok)
    \/ GenFinally(j)

\* ----------------------------------------------- safe_play on its own thread
\* lines 82-87, started by _on_play_output
PlayWorker(j, played, ok) ==
    /\ IsAt(j, "play", "p_play")
    /\ Finish(j, IF played THEN "completed"
                 ELSE IF alive /\ ok THEN "failed" ELSE "escaped")
    /\ UNCHANGED <<caps, nEvents, fs, prefs, session, coqui_instance, btn_generate,
                   view, channel, loop, nJobs>>

\* -------------------------------------------------------------- the system
\* What the user does.
Intent ==
    \/ \E v \in SpinValues, parses \in BOOLEAN : OnRecordSecondsChanged(v, parses)
    \/ \E v \in RateValues, parses \in BOOLEAN : OnSampleRateChanged(v, parses)
    \/ OnRecord
    \/ \E p \in UploadChoices : OnUpload(p)
    \/ \E t \in Texts, e \in EntryValues, a \in BOOLEAN : OnGenerate(t, e, a)
    \/ OnPlayOutput
    \/ OnExit

\* The intents that start a thread which posts status messages.
JobIntent ==
    \/ OnRecord
    \/ \E t \in Texts, e \in EntryValues, a \in BOOLEAN : OnGenerate(t, e, a)

Environment == \E f \in Deletable : ExternalDelete(f)

Workers ==
    \/ \E j \in Jobs : RecordWorker(j)
    \/ \E j \in Jobs : GenerateWorker(j)
    \/ \E j \in Jobs, played, ok \in BOOLEAN : PlayWorker(j, played, ok)

\* The timer callbacks of the main loop: they write the status label.
MainLoop ==
    \/ RunAfterCallback
    \/ ProcessStatusQueue

Next == Intent \/ Environment \/ Workers \/ MainLoop

Spec == Init /\ [][Next]_vars

\* The program without the label updates of the main loop. RunAfterCallback and
\* ProcessStatusQueue write status_var, after_q, status_q, delivered and
\* deliveredN only, and no guard and no other variable's update reads these five:
\* a valuation of the other variables is reachable here iff it is under Spec.
ControllerSpec == Init /\ [][Intent \/ Environment \/ Workers]_vars

\* The status channel: the threads that post, the main loop that drains, and
\* the main loop keeps running its timer callbacks while the application lives.
Posters ==
    \/ \E j \in Jobs : RecordWorker(j)
    \/ \E j \in Jobs : GenerateWorker(j)

ChannelNext ==
    \/ (nEvents < MaxChannelEvents /\ JobIntent)
    \/ OnExit
    \/ Posters
    \/ MainLoop

ChannelSpec == Init /\ [][ChannelNext]_vars /\ WF_vars(ProcessStatusQueue)

\* ------------------------------------------------- the start of a process
BootFrame == UNCHANGED <<HAS_TTS, HAS_PYTTSX3, disk_ok, nEvents, fs, prefs, session,
                         coqui_instance, btn_generate, view, channel, loop, threads>>

\* line 79: load_settings(), when the module is imported
LoadSettings ==
    /\ boot.pc = "import"
    /\ boot' = [boot EXCEPT !.pc = "loaded",
                            !.settings = load_settings(boot.settings, boot.file)]
    /\ BootFrame

\* main(), line 392: app = VoiceClonerApp(); an exception of __init__ ends the process.
NewApp ==
    /\ boot.pc = "loaded"
    /\ boot' = [boot EXCEPT !.app = Construct(boot.settings),
                            !.pc = IF Construct(boot.settings).ok THEN "mainloop"
                                   ELSE "crashed"]
    /\ BootFrame

\* save_settings(), called by a handler that leaves the dictionary as it is
\* (Generate with the model entry unchanged).
SaveSettings ==
    /\ boot.pc = "mainloop"
    /\ boot' = [boot EXCEPT
                  !.file = save_settings(json_dump(boot.settings), boot.file, disk_ok),
                  !.wasSaved = boot.wasSaved \/ disk_ok,
                  !.saved = IF disk_ok THEN boot.settings ELSE boot.saved]
    /\ BootFrame

\* The process is over and the program is started again: lines 56-61 run anew.
Restart ==
    /\ boot.pc \in {"mainloop", "crashed"}
    /\ boot.restarts < MaxRestarts
    /\ boot' = [boot EXCEPT !.pc = "import", !.settings = Defaults,
                            !.app = NotConstructed, !.restarts = boot.restarts + 1]
    /\ BootFrame

SettingsFiles == {<<>>} \cup {<<d>> : d \in Documents}

\* A process about to start, over every settings file.
SettingsInit ==
    /\ boot \in {Booting(f) : f \in SettingsFiles}
    /\ disk_ok \in BOOLEAN
    /\ HAS_TTS = FALSE
    /\ HAS_PYTTSX3 = FALSE
    /\ nEvents = 0
    /\ fs = {TxtFile, WavFile}
    /\ DEFAULT_SETTINGS =
          [last_voice_sample |-> "", record_seconds |-> DefaultSeconds,
           sample_rate |-> DefaultRate, tts_model_name |-> DefaultModel]
    /\ settings_file = <<>>
    /\ voice_sample = None
    /\ record_seconds = DefaultSeconds
    /\ sample_rate = DefaultRate
    /\ tts_model_name = DefaultModel
    /\ coqui_instance = None
    /\ btn_generate = "normal"
    /\ status_var = Msg(0, 0, "Ready")
    /\ sample_label = NoLabel
    /\ dialog = "none"
    /\ status_q = <<>>
    /\ after_q = <<>>
    /\ poll_pending = FALSE
    /\ alive = FALSE
    /\ workers = [j \in Jobs |-> Idle]
    /\ nJobs = 0
    /\ posted = {}
    /\ delivered = {}
    /\ deliveredN = 0

SettingsNext == LoadSettings \/ NewApp \/ SaveSettings \/ Restart

SettingsSpec == SettingsInit /\ [][SettingsNext]_vars

\* ------------------------------------------------------------------ claims
Mutating(j) == workers[j].kind \in {"record", "generate"}

GenerateRunning == \E j \in Jobs : workers[j].kind = "generate" /\ Running(j)

\* C1: at most one mutating job (Record or Synthesize) is running at any time;
\* a mutating intent issued while one runs starts no second worker.
C1_OneMutatingJob ==
    Cardinality({j \in Jobs : Mutating(j) /\ Running(j)}) <= 1

\* C2: once a Synthesize job has ended, on whatever path, the guard of the
\* mutating intents (the disabled Generate button) is released: while the
\* application lives the button is disabled only while a Synthesize worker
\* runs, and with no such worker the next Record and Generate are accepted.
C2_GuardReleased ==
    (alive /\ ~GenerateRunning) =>
        /\ btn_generate = "normal"
        /\ nEvents < MaxEvents =>
              /\ ENABLED OnRecord
              /\ ENABLED OnGenerate("Hello world", "", TRUE)

\* A Synthesize job ended by an exception raised inside its failure handler,
\* and the button is enabled again.
C2_Witness ==
    /\ alive
    /\ btn_generate = "normal"
    /\ \E j \in Jobs : /\ workers[j].kind = "generate"
                       /\ workers[j].pc = "done"
                       /\ workers[j].outcome = "escaped"

\* C3: a mutating job posts exactly one terminal (completion or failure)
\* message to the status queue: never two, and one by the time it has ended.
C3_OneTerminalMessage ==
    \A j \in Jobs : Mutating(j) =>
        /\ workers[j].term <= 1
        /\ workers[j].pc = "done" => workers[j].term = 1

\* C4: the label never shows a message of a job after a message the same job
\* emitted later.
C4_DisplayInEmitOrder ==
    [][status_var'.job = status_var.job => status_var'.k >= status_var.k]_vars

\* C5: while the application lives, every posted message is dequeued and
\* forwarded to the label exactly once, the poll stays scheduled, and a
\* non-empty queue is eventually drained.
C5_EveryPostDelivered ==
    /\ [](posted = delivered \cup SeqSet(status_q))
    /\ [](delivered \cap SeqSet(status_q) = {})
    /\ [](Cardinality(delivered) = deliveredN)
    /\ [](alive => poll_pending)
    /\ (status_q # <<>>) ~> (status_q = <<>> \/ ~alive)

\* A job's failure message and the one before it were both forwarded.
C5_Witness ==
    /\ alive
    /\ status_q = <<>>
    /\ \E j \in Jobs : {m \in delivered : m.job = j /\ m.k \in {1, 4}} # {}
                       /\ Cardinality({m \in delivered : m.job = j}) = 2

\* C6: a worker works with the values the Controller held when the job was
\* submitted (record duration, sample rate, model identifier, voice sample).
C6_WorkerUsesSnapshot ==
    \A j \in Jobs :
        /\ workers[j].duration # 0 => workers[j].duration = workers[j].sub.seconds
        /\ workers[j].samplerate # 0 => workers[j].samplerate = workers[j].sub.rate
        /\ workers[j].loadModel # "" => workers[j].loadModel = workers[j].sub.model
        /\ workers[j].cloneSample # "" => workers[j].cloneSample = workers[j].sub.sample

GenerateStarts == nJobs' = nJobs + 1 /\ workers'[nJobs'].kind = "generate"

\* C7: Generate with an empty or missing voice sample starts no job silently:
\* with an engine available the user is asked and a job starts only on "yes";
\* with no engine the intent fails with NoEngineAvailable and starts no job.
C7_NoSilentGenerate ==
    [][/\ (GenerateStarts /\ ~SampleExists(voice_sample, fs))
            => (dialog' = "AskedAccepted" /\ (HAS_TTS \/ HAS_PYTTSX3))
       /\ \A e \in EntryValues, a \in BOOLEAN :
            (OnGenerate("Hello world", e, a) /\ ~SampleExists(voice_sample, fs)) =>
                IF HAS_TTS \/ HAS_PYTTSX3
                THEN /\ dialog' = (IF a THEN "AskedAccepted" ELSE "AskedDeclined")
                     /\ GenerateStarts <=> a
                ELSE /\ dialog' = "NoEngine"
                     /\ UNCHANGED threads]_vars

\* A Synthesize job was just started without a sample, after the user said yes.
C7_Witness ==
    /\ dialog = "AskedAccepted"
    /\ ~SampleExists(voice_sample, fs)
    /\ \E j \in Jobs : IsAt(j, "generate", "g_set_preparing")

\* C8: the cloning engine is only ever handed a voice sample that is an
\* existing .wav file at the time of use.
C8_CloneOnlyWithSample ==
    \A j \in Jobs : workers[j].engine = "coqui" => workers[j].cloneUsable

\* C9: the handle a Synthesize job synthesizes with was built for the job's
\* model identifier.
C9_HandleMatchesModel ==
    \A j \in Jobs :
        workers[j].cloneHandle # "" => workers[j].cloneHandle = workers[j].sub.model

\* C10: Upload takes the chosen path only if it ends in .wav and exists; any
\* other non-empty choice fails with InvalidFile and changes nothing.
C10_UploadValidates ==
    [][\A p \in UploadChoices \ {""} :
          OnUpload(p) =>
             IF ensure_wav_path(p, fs) # None
             THEN voice_sample' = p /\ DEFAULT_SETTINGS'.last_voice_sample = p
             ELSE /\ dialog' = "InvalidFile"
                  /\ UNCHANGED <<voice_sample, DEFAULT_SETTINGS, settings_file>>]_vars

\* line 158: the rates the combobox offers
AllowedRates == {8000, 16000, 22050, 32000, 44100, 48000}

\* A Preferences record: the four fields, each in its domain, and nothing else.
ValidPreferences(d) ==
    /\ d["last_voice_sample"].t = "str"
    /\ d["record_seconds"].t = "int" /\ d["record_seconds"].n \in 2..60
    /\ d["sample_rate"].t = "int" /\ d["sample_rate"].n \in AllowedRates
    /\ d["tts_model_name"].t = "str"
    /\ \A k \in Keys \ KnownKeys : d[k].t = "absent"

\* C11: whatever the settings file holds, load_settings leaves a Preferences
\* record with the four fields in their domains and no unknown field, and the
\* Controller is constructed from it without an exception.
C11_LoadYieldsValidRecord ==
    boot.pc # "import" => (ValidPreferences(boot.settings) /\ boot.pc # "crashed")

\* C12: a record that was saved is the record the next load yields, and once
\* a record has been saved, loading and saving again changes neither the
\* record nor the file.
C12_RoundTrip ==
    /\ []((boot.pc = "loaded" /\ boot.wasSaved) => boot.settings = boot.saved)
    /\ [][boot.wasSaved => boot'.file = boot.file]_vars

\* A record that differs from the defaults and holds an unknown key was saved
\* and loaded by the next process.
C12_Witness ==
    /\ boot.pc = "loaded"
    /\ boot.wasSaved
    /\ boot.restarts = 1
    /\ boot.settings["theme"] = PyStr("dark")
    /\ boot.settings["tts_model_name"] = PyStr(OtherModel)
    /\ boot.file = <<json_dump(boot.settings)>>

\* C13: the settings file, once it exists, holds one complete record with the
\* four fields at every point in time: never an empty or partial document.
C13_FileAlwaysComplete ==
    settings_file # <<>> =>
        /\ Len(settings_file) = 1
        /\ settings_file[1] # Truncated
        /\ DOMAIN settings_file[1] = KnownKeys

\* The session as on_exit writes it to the settings.
SessionAsPrefs ==
    [last_voice_sample |-> IF voice_sample = None THEN "" ELSE voice_sample,
     record_seconds |-> record_seconds,
     sample_rate |-> sample_rate,
     tts_model_name |-> tts_model_name]

\* C14: shutdown persists the session as it is then, and what is persisted
\* stays so once shutdown has completed, whatever a worker still running does
\* (the file being writable).
C14_ShutdownPersists ==
    [][/\ (alive /\ ~alive' /\ disk_ok) => settings_file' = <<SessionAsPrefs>>
       /\ (~alive /\ disk_ok) => settings_file' = settings_file]_vars

Rejections == {"NoText", "NoEngine", "AskedDeclined"}

\* C15: a Generate rejected by the validation (no text, no engine, the
\* confirmation declined) starts no job and changes neither the session, the
\* settings, the settings file, the engine handle, the files nor the button.
C15_RejectedGenerateNoChange ==
    [][\A t \in Texts, e \in EntryValues, a \in BOOLEAN :
          (OnGenerate(t, e, a) /\ dialog' \in Rejections) =>
              UNCHANGED <<voice_sample, record_seconds, sample_rate, tts_model_name,
                          DEFAULT_SETTINGS, settings_file, coqui_instance, fs,
                          btn_generate, workers, nJobs>>]_vars

\* A Generate was declined at the confirmation, another model name in the entry
\* or not, and nothing was started.
C15_Witness ==
    /\ dialog = "AskedDeclined"
    /\ nJobs = 0
    /\ btn_generate = "normal"
    /\ tts_model_name = DefaultModel

\* A Record worker in its except clause, or ended otherwise than completed.
RecordFailing(j) ==
    /\ workers[j].kind = "record"
    /\ \/ workers[j].pc \in {"r_fail_post", "r_fail_set", "r_fail_dialog"}
       \/ workers[j].pc = "done" /\ workers[j].outcome # "completed"

\* C16: a Record job that fails, at whatever step, has updated neither the
\* voice sample nor the last_voice_sample setting.
C16_FailedRecordNoUpdate ==
    \A j \in Jobs : RecordFailing(j) => workers[j].wrote = ""

\* The engine load of Synthesize job j failed.
LoadFailed(j) ==
    /\ workers[j].kind = "generate"
    /\ \/ workers[j].pc = "g_post_load_failed"
       \/ Msg(j, 3, "Failed to load Coqui model: e") \in posted

C18_NoEscapeFromWorker ==
    \A j \in Jobs :
        (Mutating(j) /\ workers[j].pc = "done") => workers[j].outcome \in {"completed", "failed"}

\* A Record worker between setting self.voice_sample and the end of its save.
MidUpdate ==
    \E j \in Jobs : /\ workers[j].kind = "record"
                     /\ workers[j].pc \in {"r_set_label", "r_set_pref", "r_save", "r_save_dump"}

\* C19: outside an update in progress, the session values are the ones in the
\* settings dictionary and, the file being written and writable, in the file.
C19_WriteThrough ==
    ~MidUpdate =>
        /\ DEFAULT_SETTINGS = SessionAsPrefs
        /\ (disk_ok /\ settings_file # <<>>) => settings_file = <<DEFAULT_SETTINGS>>

\* A step of a worker thread.
WorkerStep ==
    \E j \in Jobs : \/ RecordWorker(j)
                     \/ GenerateWorker(j)
                     \/ \E played, ok \in BOOLEAN : PlayWorker(j, played, ok)

\* C20: no step of a worker thread writes a view variable or reconfigures a
\* widget: workers reach the view through status_q and after() only.
C20_ViewOnInteractiveThread ==
    [][WorkerStep => UNCHANGED <<status_var, sample_label, btn_generate>>]_vars

====
